---- MODULE Spec2Model ----
(***************************************************************************)
(* Model of userboard_pipeline.py: main() loads the cluster file, selects  *)
(* the top clusters and runs the four LangGraph nodes (ideate,             *)
(* generate_personas, board, generate_summary) before write_report.        *)
(*                                                                         *)
(* Text is modelled as a sequence of one-character strings so that         *)
(* str.lower(), str.strip() and the substring test are computed.           *)
(***************************************************************************)
EXTENDS Integers, Sequences, FiniteSets, TLC

\* ---------------------------------------------------------------------
\* Bounds of the explored inputs
\* ---------------------------------------------------------------------
MaxPersonas == 2
MaxFeatures == 2
MaxRounds == 4
\* persona_count * discussion_rounds of an explored configuration
MaxTurns == 4
\* lines of an ideation reply / elements of a persona reply
MaxLines == 3
MaxItems == 3
\* clusters of a file given to load_cluster_data on its own
MaxClusters == 3

\* ---------------------------------------------------------------------
\* Text helpers (str.lower, str.strip, `in`, startswith)
\* ---------------------------------------------------------------------
LowerChar(c) ==
  CASE c = "A" -> "a"
    [] c = "E" -> "e"
    [] OTHER -> c

Lower(s) == [i \in 1..Len(s) |-> LowerChar(s[i])]

\* The whitespace characters of the modelled texts
Whitespace == {" ", "\n"}

RECURSIVE LStrip(_)
LStrip(s) == IF s # <<>> /\ Head(s) \in Whitespace THEN LStrip(Tail(s)) ELSE s

RECURSIVE RStrip(_)
RStrip(s) ==
  IF s # <<>> /\ s[Len(s)] \in Whitespace
  THEN RStrip(SubSeq(s, 1, Len(s) - 1)) ELSE s

Strip(s) == RStrip(LStrip(s))

\* Python `sub in s`
Contains(sub, s) ==
  \E i \in 0..(Len(s) - Len(sub)) : SubSeq(s, i + 1, i + Len(sub)) = sub

SeqsUpTo(S, n) == UNION {[1..k -> S] : k \in 0..n}

\* ---------------------------------------------------------------------
\* Cluster files
\* ---------------------------------------------------------------------
\* A cluster: neg is sentiment_dist["negative"] (-1: the key is absent);
\* flaw names a malformed field:
\*   "keywords" - keywords is not a list of strings (', '.join raises)
\*   "avg"      - avg_sentiment is not a number (the :.2f format raises)
\*   "sent"     - sentiment_dist is not a mapping (.get raises)
Cluster(n, f) == [neg |-> n, flaw |-> f]

\* The content of CFG.cluster_json as json.load sees it.
Files ==
  { [kind |-> "missing", items |-> <<>>],
    [kind |-> "unreadable", items |-> <<>>],
    [kind |-> "invalid_json", items |-> <<>>],
    [kind |-> "scalar", items |-> <<>>],
    [kind |-> "list", items |-> <<>>],
    [kind |-> "dict", items |-> <<>>],
    [kind |-> "list", items |-> <<Cluster(0, "none"), Cluster(1, "none")>>],
    [kind |-> "dict", items |-> <<[key |-> "k", value |-> Cluster(-1, "keywords")]>>],
    [kind |-> "dict", items |-> <<[key |-> "k", value |-> Cluster(1, "avg")]>>],
    [kind |-> "dict", items |-> <<[key |-> "k", value |-> Cluster(1, "sent")]>>] }

\* Variant: the indices counted from 1
StrOfIntFromOne(i) ==
  CASE i = 0 -> "1"
    [] i = 1 -> "2"
    [] i = 2 -> "3"
    [] i = 3 -> "4"
    [] i = 4 -> "5"
    [] i = 5 -> "6"
    [] OTHER -> "n"

\* str(i) for the indices of a list-form file
StrOfInt(i) ==
  CASE i = 0 -> "0"
    [] i = 1 -> "1"
    [] i = 2 -> "2"
    [] i = 3 -> "3"
    [] i = 4 -> "4"
    [] i = 5 -> "5"
    [] OTHER -> "n"

\* load_cluster_data: [exc |-> exception class or "none", value |-> clusters]
load_cluster_data(file) ==
  CASE file.kind = "missing" -> [exc |-> "FileNotFoundError", value |-> <<>>]
    [] file.kind = "invalid_json" -> [exc |-> "ValueError", value |-> <<>>]
    [] file.kind = "unreadable" -> [exc |-> "IOError", value |-> <<>>]
    [] file.kind = "scalar" -> [exc |-> "TypeError", value |-> <<>>]
    [] OTHER ->
         LET clusters ==
               IF file.kind = "list"
               THEN [i \in 1..Len(file.items) |->
                       [key |-> StrOfInt(i - 1), value |-> file.items[i]]]
               ELSE file.items
         IN IF clusters = <<>>
            THEN [exc |-> "ValueError", value |-> <<>>]
            ELSE [exc |-> "none", value |-> clusters]

\* The except clauses of main(): the exit status for an exception class.
ExitCodeFor(exc) ==
  CASE exc = "FileNotFoundError" -> 2
    [] exc = "ValueError" -> 3
    [] OTHER -> 1

\* key= of the sort in pick_top_clusters
NegKey(kv) == IF kv.value.neg = -1 THEN 0 ELSE kv.value.neg

\* Variant: equal keys end up in reverse input order
RECURSIVE InsertDescUnstable(_, _)
InsertDescUnstable(kv, sorted) ==
  IF sorted = <<>> THEN <<kv>>
  ELSE IF NegKey(Head(sorted)) > NegKey(kv)
       THEN <<Head(sorted)>> \o InsertDescUnstable(kv, Tail(sorted))
       ELSE <<kv>> \o sorted

\* sorted(..., reverse=True): stable, descending by key
RECURSIVE InsertDesc(_, _)
InsertDesc(kv, sorted) ==
  IF sorted = <<>> THEN <<kv>>
  ELSE IF NegKey(Head(sorted)) >= NegKey(kv)
       THEN <<Head(sorted)>> \o InsertDesc(kv, Tail(sorted))
       ELSE <<kv>> \o sorted

RECURSIVE SortedDesc(_)
SortedDesc(s) ==
  IF s = <<>> THEN <<>>
  ELSE InsertDesc(s[Len(s)], SortedDesc(SubSeq(s, 1, Len(s) - 1)))

Min(a, b) == IF a <= b THEN a ELSE b

pick_top_clusters(clusters, k) ==
  IF k <= 0 THEN [exc |-> "none", value |-> <<>>]
  ELSE IF \E i \in 1..Len(clusters) : clusters[i].value.flaw = "sent"
       THEN [exc |-> "TypeError", value |-> <<>>]
       ELSE [exc |-> "none",
             value |-> SubSeq(SortedDesc(clusters), 1, Min(k, Len(clusters)))]

\* ---------------------------------------------------------------------
\* The completion service as the stages see it
\* ---------------------------------------------------------------------
\* An outcome of ask_llm: ok = FALSE when all attempts raised.
LlmFail == [ok |-> FALSE, raw |-> <<>>]
LlmOk(raw) == [ok |-> TRUE, raw |-> raw]

\* ---------------------------------------------------------------------
\* 2) Feature ideation
\* ---------------------------------------------------------------------
FeatureProposal(i, d) == [id |-> i, description |-> d]

\* Variant: a heading line is not recognised
StartsWithMarkerNoHeading(line) == line # <<>> /\ Head(line) \in {"*", "-"}

\* line.startswith(("*", "-", "#"))
StartsWithMarker(line) == line # <<>> /\ Head(line) \in {"*", "-", "#"}

\* [line.strip() for line in raw.split('\n') if line.strip()]
StrippedLines(raw) ==
  LET F[i \in 0..Len(raw)] ==
        IF i = 0 THEN <<>>
        ELSE IF Strip(raw[i]) # <<>> THEN Append(F[i - 1], Strip(raw[i]))
             ELSE F[i - 1]
  IN F[Len(raw)]

\* [line for line in lines if not line.startswith(...) and "|" not in line]
ProposalLines(lines) ==
  LET F[i \in 0..Len(lines)] ==
        IF i = 0 THEN <<>>
        ELSE IF ~StartsWithMarker(lines[i]) /\ ~Contains(<<"|">>, lines[i])
             THEN Append(F[i - 1], lines[i])
             ELSE F[i - 1]
  IN F[Len(lines)]

\* The post-processing of the reply (raw is raw.split('\n')), for n >= 0
ProposalsOf(raw, n) ==
  LET lines == StrippedLines(raw)
      proposals_text == ProposalLines(lines)
      m == Min(n, Len(proposals_text))
  IN [i \in 1..m |-> FeatureProposal(i, proposals_text[i])]

\* ideate_features: exc is the exception leaving the function, called tells
\* whether ask_llm was invoked.
ideate_features(selected, n, llm) ==
  IF selected = <<>>
  THEN [exc |-> "none", value |-> <<>>, called |-> FALSE]
  ELSE IF \E i \in 1..Len(selected) : selected[i].value.flaw \in {"keywords", "sent"}
       THEN [exc |-> "TypeError", value |-> <<>>, called |-> FALSE]
       ELSE IF ~llm.ok
            THEN [exc |-> "none", value |-> <<>>, called |-> TRUE]
            ELSE [exc |-> "none", value |-> ProposalsOf(llm.raw, n), called |-> TRUE]

\* ---------------------------------------------------------------------
\* 3) Persona generation
\* ---------------------------------------------------------------------
Persona(nm, sent) == [name |-> nm, sentiment |-> sent]

\* str.lower() of a sentiment value
LowerSentiment(v) ==
  CASE v = "Neutral" -> "neutral"
    [] v = "POSITIVE" -> "positive"
    [] v = "Negative" -> "negative"
    [] OTHER -> v

\* The value of a "sentiment" key that is not a string (null, a number)
NonString == "<not a str>"

\* An element of the parsed array:
\*   shape     "notdict" | "missing" (a required key is absent) | "dict"
\*   sentiment the value of item["sentiment"]
\*   pain_ok   pain_points is a list of strings
Item(sh, nm, sent, pok) ==
  [shape |-> sh, name |-> nm, sentiment |-> sent, pain_ok |-> pok]

\* The validation loop over parsed_json: raised = an exception left the
\* loop (caught by the enclosing except Exception)
RECURSIVE ValidatePersonas(_)
ValidatePersonas(items) ==
  IF items = <<>> THEN [raised |-> FALSE, personas |-> <<>>]
  ELSE LET item == Head(items)
           rest == ValidatePersonas(Tail(items))
       IN IF item.shape # "dict" THEN rest
          ELSE IF item.sentiment = NonString
               THEN [raised |-> TRUE, personas |-> <<>>]
               ELSE IF LowerSentiment(item.sentiment)
                         \notin {"positive", "neutral", "negative"}
                    THEN rest
                    ELSE IF ~item.pain_ok THEN rest
                         ELSE IF rest.raised THEN rest
                              ELSE [raised |-> FALSE,
                                    personas |->
                                      <<Persona(item.name,
                                                LowerSentiment(item.sentiment))>>
                                      \o rest.personas]

\* Variant: the validated personas are returned without personas[:count]
generate_personas_untruncated(clusters, count, llm) ==
  IF clusters = <<>> \/ count <= 0
  THEN [exc |-> "none", value |-> <<>>, called |-> FALSE]
  ELSE LET num_to_select == Min(count, Len(clusters))
       IN IF \E i \in 1..num_to_select :
                 clusters[i].value.flaw \in {"keywords", "avg", "sent"}
          THEN [exc |-> "ValueError", value |-> <<>>, called |-> FALSE]
          ELSE IF ~llm.ok \/ llm.raw.kind # "array"
               THEN [exc |-> "none", value |-> <<>>, called |-> TRUE]
               ELSE LET v == ValidatePersonas(llm.raw.items)
                    IN [exc |-> "none",
                        value |-> IF v.raised THEN <<>> ELSE v.personas,
                        called |-> TRUE]

\* generate_personas; llm.raw is [kind |-> "array" | "text" | "bad_json",
\* items |-> the parsed elements]
generate_personas(clusters, count, llm) ==
  IF clusters = <<>> \/ count <= 0
  THEN [exc |-> "none", value |-> <<>>, called |-> FALSE]
  ELSE LET num_to_select == Min(count, Len(clusters))
       IN IF \E i \in 1..num_to_select :
                 clusters[i].value.flaw \in {"keywords", "avg", "sent"}
          THEN [exc |-> "ValueError", value |-> <<>>, called |-> FALSE]
          ELSE IF ~llm.ok \/ llm.raw.kind # "array"
               THEN [exc |-> "none", value |-> <<>>, called |-> TRUE]
               ELSE LET v == ValidatePersonas(llm.raw.items)
                    IN [exc |-> "none",
                        value |-> IF v.raised THEN <<>>
                                  ELSE SubSeq(v.personas, 1,
                                              Min(count, Len(v.personas))),
                        called |-> TRUE]

\* ---------------------------------------------------------------------
\* 4) Board simulation: helpers
\* ---------------------------------------------------------------------
\* The reply substituted when chain.predict raises
ErrorReply == <<"(", "e", ")">>

\* Variant: only the persona list is tested
ShortCircuitsNoFeatureTest(personas, features) == personas = <<>>

\* if not personas or not features
ShortCircuits(personas, features) == personas = <<>> \/ features = <<>>

\* Variant: a failed turn yields the empty reply
ReplyOfNoPlaceholder(out) == IF out.ok THEN Strip(out.raw) ELSE <<>>

\* The reply of a turn: chain.predict(...).strip(), or the placeholder of
\* the except branch
ReplyOf(out) == IF out.ok THEN Strip(out.raw) ELSE ErrorReply

\* feature_list_md: "\n".join(f"{i+1}. {f.description}" ...)
RECURSIVE FeatureListMd(_, _)
FeatureListMd(features, i) ==
  IF i > Len(features) THEN <<>>
  ELSE <<StrOfInt(i), ". ">> \o features[i].description
       \o (IF i < Len(features) THEN <<"\n">> ELSE <<>>)
       \o FeatureListMd(features, i + 1)

WelcomePrompt(features) ==
  <<"Welcome, everyone. We have ", StrOfInt(Len(features)), " candidate features:">>
  \o FeatureListMd(features, 1)
  \o <<"what excites or worries you most?">>

RiskPrompt == <<"Thanks! Now dig deeper: one concrete risk or one success metric">>

PrioritisePrompt == <<"Time to prioritise. Pick ONE feature & why. Mention one trade-off">>

\* Variant: the elif of round 2 is missing
FacInputNoRiskRound(r, features) ==
  IF r = 1 THEN WelcomePrompt(features) ELSE PrioritisePrompt

\* fac_input of round r
FacInput(r, features) ==
  IF r = 1 THEN WelcomePrompt(features)
  ELSE IF r = 2 THEN RiskPrompt
  ELSE PrioritisePrompt

\* The index of the first feature whose description.lower() is in
\* reply.lower(); 0 when there is none
FirstMatch(features, reply) ==
  LET hits == {i \in 1..Len(features) :
                 Contains(Lower(features[i].description), Lower(reply))}
  IN IF hits = {} THEN 0
     ELSE CHOOSE i \in hits : \A j \in hits : i <= j

\* priority_votes is a defaultdict(int): keys appear on first increment
VoteOf(votes, d) == IF d \in DOMAIN votes THEN votes[d] ELSE 0

\* Variant: the break is missing, every mentioned feature is counted
RECURSIVE TallyVoteNoBreak(_, _, _)
TallyVoteNoBreak(votes, features, reply) ==
  IF features = <<>> THEN votes
  ELSE LET d == features[Len(features)].description
           v == TallyVoteNoBreak(votes,
                                 SubSeq(features, 1, Len(features) - 1), reply)
       IN IF Contains(Lower(d), Lower(reply))
          THEN [k \in (DOMAIN v) \cup {d} |->
                  IF k = d THEN VoteOf(v, d) + 1 ELSE v[k]]
          ELSE v

TallyVote(votes, features, reply) ==
  LET i == FirstMatch(features, reply)
  IN IF i = 0 THEN votes
     ELSE LET d == features[i].description
          IN [k \in (DOMAIN votes) \cup {d} |->
                IF k = d THEN VoteOf(votes, d) + 1 ELSE votes[k]]

\* ConversationBufferWindowMemory(k=5): the last k exchanges
WindowK == 5

Window(msgs) ==
  IF Len(msgs) <= 2 * WindowK THEN msgs
  ELSE SubSeq(msgs, Len(msgs) - 2 * WindowK + 1, Len(msgs))

\* Variant: the facilitator's message recorded as an assistant message
HumanMessageAsAI(c) == [type |-> "ai", content |-> c, by |-> 0]

HumanMessage(c) == [type |-> "human", content |-> c, by |-> 0]
\* by: the position in the persona list of the speaker (not part of the
\* message; it records whose turn produced the text)
AIMessage(c, i) == [type |-> "ai", content |-> c, by |-> i]

\* chains[p.name] after the initialisation loop: a later persona of the
\* same name replaces the entry
ChainsOf(personas) ==
  [n \in {personas[i].name : i \in 1..Len(personas)} |->
     CHOOSE i \in 1..Len(personas) :
       /\ personas[i].name = n
       /\ \A j \in 1..Len(personas) : personas[j].name = n => j <= i]

\* Variant: positions drawn with replacement
PermsWithRepeats(n) == [1..n -> 1..n]

\* random.shuffle(order): every permutation of the positions
Perms(n) == {f \in [1..n -> 1..n] : \A i, j \in 1..n : i # j => f[i] # f[j]}

\* Transcript turns (header line + text)
FacTurn(r, text) == [role |-> "facilitator", name |-> "Facilitator", round |-> r, text |-> text]
PersonaTurnOf(nm, text) == [role |-> "persona", name |-> nm, round |-> 0, text |-> text]

\* ---------------------------------------------------------------------
\* 5) Meeting summary
\* ---------------------------------------------------------------------
\* final_transcript_md = "\n".join(transcript): each turn is a heading
\* entry and a text entry of the list
RECURSIVE TranscriptMd(_)
TranscriptMd(turns) ==
  IF turns = <<>> THEN <<>>
  ELSE LET t == Head(turns)
           heading == IF t.role = "facilitator"
                      THEN <<"\n", "### Facilitator - Round ", StrOfInt(t.round)>>
                      ELSE <<"\n", "#### ", t.name>>
           entries == heading \o <<"\n">> \o t.text
       IN IF Tail(turns) = <<>> THEN entries
          ELSE entries \o <<"\n">> \o TranscriptMd(Tail(turns))

EmptyTranscriptSummary == <<"Error:", " Transcript was empty.">>
FailedSummary == <<"Error:", " Failed to generate meeting summary due to: ">>

\* Variant: the completion service is asked about a blank transcript too
summarise_meeting_unguarded(transcript_md, llm) ==
  IF ~llm.ok
  THEN [value |-> FailedSummary, called |-> TRUE]
  ELSE [value |-> llm.raw, called |-> TRUE]

summarise_meeting(transcript_md, llm) ==
  IF Strip(transcript_md) = <<>>
  THEN [value |-> EmptyTranscriptSummary, called |-> FALSE]
  ELSE IF ~llm.ok
       THEN [value |-> FailedSummary, called |-> TRUE]
       ELSE [value |-> llm.raw, called |-> TRUE]

\* ---------------------------------------------------------------------
\* 6) Report writer
\* ---------------------------------------------------------------------
\* summary.startswith("Error:")
StartsWithError(summary) == summary # <<>> /\ Head(summary) = "Error:"

\* The sections of the file; the cluster section raises on a cluster whose
\* keywords cannot be joined, which ends the writing after the header.
write_report(selected_clusters, features, personas, transcript, summary) ==
  IF \E i \in 1..Len(selected_clusters) :
        selected_clusters[i].value.flaw \in {"keywords", "sent"}
  THEN [complete |-> FALSE, features |-> "absent", personas |-> "absent",
        transcript |-> "absent", summary |-> "absent"]
  ELSE [complete |-> TRUE,
        features |-> IF features # <<>> THEN "listed" ELSE "placeholder",
        personas |-> IF personas # <<>> THEN "listed" ELSE "placeholder",
        transcript |-> IF Strip(transcript) # <<>> THEN "listed" ELSE "placeholder",
        summary |-> IF Strip(summary) # <<>> /\ ~StartsWithError(summary)
                    THEN "listed" ELSE "placeholder"]

NoReport ==
  [complete |-> FALSE, features |-> "none", personas |-> "none",
   transcript |-> "none", summary |-> "none"]

\* ---------------------------------------------------------------------
\* Inputs explored
\* ---------------------------------------------------------------------
\* CFG: persona_count, feature_count, discussion_rounds
Configs ==
  {c \in [persona_count : 0..MaxPersonas,
          feature_count : 0..MaxFeatures,
          discussion_rounds : 0..MaxRounds] :
     c.persona_count * c.discussion_rounds <= MaxTurns}

\* Lines of a reply to the ideation prompt
RawLines == {<<"A">>, <<"e", " ">>, <<"-", "A">>, <<"A", "|">>, <<" ">>}
IdeationReplies == SeqsUpTo(RawLines, MaxLines)

\* Elements of a reply to the persona prompt
RawItems ==
  { Item("dict", "Ann", "Neutral", TRUE),
    Item("dict", "Bob", "Neutral", TRUE),
    Item("missing", "Ann", "Neutral", TRUE),
    Item("dict", "Ann", NonString, TRUE) }
PersonaReplies ==
  {[kind |-> "text", items |-> <<>>], [kind |-> "bad_json", items |-> <<>>]}
  \cup {[kind |-> "array", items |-> s] : s \in SeqsUpTo(RawItems, MaxItems)}

\* Replies of a persona's chain
BoardReplies == {<<"a", "E">>, <<"E", " ">>}

\* Replies to the summary prompt
SummaryReplies == {<<"Pros & Cons per Feature">>}

\* ---------------------------------------------------------------------
\* State
\* ---------------------------------------------------------------------
VARIABLES
  pc,              \* position in main()
  cfg,             \* CFG
  file,            \* the content of CFG.cluster_json
  clusters,        \* result of load_cluster_data
  state,           \* AgentState passed between the graph nodes
  report,          \* board_session_report.md
  exit_code,       \* process exit status, -1 while running
  llm_calls,       \* completion calls made so far, per call site
  llm_failures,    \* of these, the calls that raised to their caller
  bpc,             \* position in simulate_board
  r,               \* round of the simulation loop
  order,           \* personas (positions) still to speak in round r
  transcript,      \* transcript list of simulate_board
  global_history,  \* global_history of simulate_board
  priority_votes,  \* priority_votes of simulate_board
  chains,          \* chains: name -> persona whose profile the chain holds
  memories,        \* memories: name -> messages saved by the chain
  last_prompt,     \* history and input of the latest chain.predict
  fn,              \* a function examined on its own: position of the call
  args,            \* its arguments
  ret,             \* its result
  attempts         \* outcomes of the attempts of one completion call

mainVars == <<pc, cfg, file, clusters, state, report, exit_code, llm_calls,
             llm_failures>>
simVars == <<bpc, r, order, transcript, global_history, priority_votes,
             chains, memories, last_prompt>>
auxVars == <<fn, args, ret, attempts>>
vars == <<mainVars, simVars, auxVars>>

None == "None"

NoPrompt ==
  [speaker |-> 0, profile |-> 0, history |-> <<>>, input |-> <<>>, ok |-> TRUE]

\* No function is examined on its own
AuxIdle ==
  /\ fn = "none"
  /\ args = <<>>
  /\ ret = <<>>
  /\ attempts = <<>>

SimIdle ==
  /\ bpc = "idle"
  /\ r = 0
  /\ order = <<>>
  /\ transcript = <<>>
  /\ global_history = <<>>
  /\ priority_votes = <<>>
  /\ chains = <<>>
  /\ memories = <<>>
  /\ last_prompt = NoPrompt

InitialState(selected) ==
  [selected_clusters |-> selected, features |-> <<>>, personas |-> <<>>,
   transcript |-> <<>>, conversation_history |-> <<>>, summary |-> <<>>,
   error |-> None]

Init ==
  /\ pc = "load"
  /\ cfg \in Configs
  /\ file \in Files
  /\ clusters = <<>>
  /\ state = InitialState(<<>>)
  /\ report = NoReport
  /\ exit_code = -1
  /\ llm_calls = [ideate |-> 0, personas |-> 0, board |-> 0, summary |-> 0]
  /\ llm_failures = [ideate |-> 0, personas |-> 0, board |-> 0, summary |-> 0]
  /\ SimIdle
  /\ AuxIdle

\* ---------------------------------------------------------------------
\* main(): loading and selection
\* ---------------------------------------------------------------------
\* clusters = load_cluster_data(CFG.cluster_json), with the except clauses
LoadClusterData ==
  /\ pc = "load"
  /\ LET res == load_cluster_data(file)
     IN IF res.exc # "none"
        THEN /\ exit_code' = ExitCodeFor(res.exc)
             /\ pc' = "exited"
             /\ UNCHANGED clusters
        ELSE /\ clusters' = res.value
             /\ pc' = "pick"
             /\ UNCHANGED exit_code
  /\ UNCHANGED <<cfg, file, state, report, llm_calls, llm_failures, simVars>>
  /\ UNCHANGED auxVars

\* pick_top_clusters(clusters, k=CFG.persona_count), the exit when nothing
\* was selected, and the initial state of the pipeline
PickTopClusters ==
  /\ pc = "pick"
  /\ LET res == pick_top_clusters(clusters, cfg.persona_count)
     IN IF res.exc # "none"
        THEN /\ exit_code' = ExitCodeFor(res.exc)
             /\ pc' = "exited"
             /\ UNCHANGED state
        ELSE IF res.value = <<>>
             THEN /\ exit_code' = 1
                  /\ pc' = "exited"
                  /\ UNCHANGED state
             ELSE /\ state' = InitialState(res.value)
                  /\ pc' = "ideate"
                  /\ UNCHANGED exit_code
  /\ UNCHANGED <<cfg, file, clusters, report, llm_calls, llm_failures, simVars>>
  /\ UNCHANGED auxVars

\* ---------------------------------------------------------------------
\* Graph nodes
\* ---------------------------------------------------------------------
Called(site, called, llm) ==
  /\ llm_calls' = IF called THEN [llm_calls EXCEPT ![site] = @ + 1] ELSE llm_calls
  /\ llm_failures' = IF called /\ ~llm.ok
                     THEN [llm_failures EXCEPT ![site] = @ + 1]
                     ELSE llm_failures

run_feature_ideation ==
  /\ pc = "ideate"
  /\ \E llm \in {LlmFail} \cup {LlmOk(raw) : raw \in IdeationReplies} :
       LET res == ideate_features(state.selected_clusters, cfg.feature_count, llm)
       IN /\ state' = IF res.exc # "none"
                      THEN [state EXCEPT !.error = "Feature Ideation Failed"]
                      ELSE [state EXCEPT !.features = res.value, !.error = None]
          /\ Called("ideate", res.called, llm)
  /\ pc' = "generate_personas"
  /\ UNCHANGED <<cfg, file, clusters, report, exit_code, simVars>>
  /\ UNCHANGED auxVars

run_persona_generation ==
  /\ pc = "generate_personas"
  /\ IF state.error # None
     THEN UNCHANGED <<state, llm_calls, llm_failures>>
     ELSE \E llm \in {LlmFail} \cup {LlmOk(raw) : raw \in PersonaReplies} :
            LET res == generate_personas(state.selected_clusters,
                                         cfg.persona_count, llm)
            IN /\ state' = IF res.exc # "none"
                           THEN [state EXCEPT !.error = "Persona Generation Failed"]
                           ELSE [state EXCEPT !.personas = res.value, !.error = None]
               /\ Called("personas", res.called, llm)
  /\ pc' = "board"
  /\ UNCHANGED <<cfg, file, clusters, report, exit_code, simVars>>
  /\ UNCHANGED auxVars

\* ---------------------------------------------------------------------
\* run_board_simulation / simulate_board
\* ---------------------------------------------------------------------
\* The node is skipped when an earlier node set the error
BoardSkipped ==
  /\ pc = "board" /\ bpc = "idle"
  /\ state.error # None
  /\ pc' = "generate_summary"
  /\ UNCHANGED <<cfg, file, clusters, state, report, exit_code, llm_calls,
                 llm_failures, simVars>>
  /\ UNCHANGED auxVars

\* if not personas or not features: return "", []
BoardShortCircuit ==
  /\ pc = "board" /\ bpc = "idle"
  /\ state.error = None
  /\ ShortCircuits(state.personas, state.features)
  /\ state' = [state EXCEPT !.transcript = <<>>, !.conversation_history = <<>>,
                            !.error = None]
  /\ pc' = "generate_summary"
  /\ UNCHANGED <<cfg, file, clusters, report, exit_code, llm_calls,
                 llm_failures, simVars>>
  /\ UNCHANGED auxVars

\* Variant: the round loop starts at round 2
BoardInitFromRoundTwo ==
  /\ pc = "board" /\ bpc = "idle"
  /\ state.error = None
  /\ ~ShortCircuits(state.personas, state.features)
  /\ chains' = ChainsOf(state.personas)
  /\ memories' = [n \in DOMAIN ChainsOf(state.personas) |-> <<>>]
  /\ transcript' = <<>>
  /\ global_history' = <<>>
  /\ priority_votes' = <<>>
  /\ order' = <<>>
  /\ last_prompt' = NoPrompt
  /\ r' = 2
  /\ bpc' = IF cfg.discussion_rounds >= 1 THEN "round" ELSE "done"
  /\ UNCHANGED mainVars
  /\ UNCHANGED auxVars

\* Initialisation of chains and memories, and the empty transcript,
\* history and tally
BoardInit ==
  /\ pc = "board" /\ bpc = "idle"
  /\ state.error = None
  /\ ~ShortCircuits(state.personas, state.features)
  /\ chains' = ChainsOf(state.personas)
  /\ memories' = [n \in DOMAIN ChainsOf(state.personas) |-> <<>>]
  /\ transcript' = <<>>
  /\ global_history' = <<>>
  /\ priority_votes' = <<>>
  /\ order' = <<>>
  /\ last_prompt' = NoPrompt
  /\ r' = 1
  /\ bpc' = IF cfg.discussion_rounds >= 1 THEN "round" ELSE "done"
  /\ UNCHANGED mainVars
  /\ UNCHANGED auxVars

\* Head of the round loop: facilitator turn and shuffle
RoundStart ==
  /\ bpc = "round"
  /\ LET fac_input == FacInput(r, state.features)
     IN /\ transcript' = Append(transcript, FacTurn(r, fac_input))
        /\ global_history' = Append(global_history, HumanMessage(fac_input))
  /\ \E f \in Perms(Len(state.personas)) : order' = f
  /\ bpc' = "turns"
  /\ UNCHANGED <<r, priority_votes, chains, memories, last_prompt>>
  /\ UNCHANGED mainVars
  /\ UNCHANGED auxVars

\* One iteration of `for p in order`; ok = FALSE when chain.predict raises.
\* The chain saves the exchange (input, raw output) to its memory only when
\* the call returned.
PersonaTurn ==
  /\ bpc = "turns"
  /\ order # <<>>
  /\ \E out \in {LlmFail} \cup {LlmOk(raw) : raw \in BoardReplies} :
       LET i == Head(order)
           p == state.personas[i]
           fac_input == FacInput(r, state.features)
           history == Window(memories[p.name])
           reply == ReplyOf(out)
       IN /\ last_prompt' = [speaker |-> i, profile |-> chains[p.name],
                             history |-> history, input |-> fac_input,
                             ok |-> out.ok]
          /\ llm_failures' = IF out.ok THEN llm_failures
                             ELSE [llm_failures EXCEPT !.board = @ + 1]
          /\ memories' =
               IF out.ok
               THEN [memories EXCEPT ![p.name] =
                       @ \o <<HumanMessage(fac_input), AIMessage(out.raw, i)>>]
               ELSE memories
          /\ transcript' = Append(transcript, PersonaTurnOf(p.name, reply))
          /\ global_history' = Append(global_history, AIMessage(reply, i))
          /\ priority_votes' =
               IF r = cfg.discussion_rounds
               THEN TallyVote(priority_votes, state.features, reply)
               ELSE priority_votes
  /\ llm_calls' = [llm_calls EXCEPT !.board = @ + 1]
  /\ order' = Tail(order)
  /\ IF Tail(order) # <<>>
     THEN UNCHANGED <<r, bpc>>
     ELSE IF r < cfg.discussion_rounds
          THEN r' = r + 1 /\ bpc' = "round"
          ELSE UNCHANGED r /\ bpc' = "done"
  /\ UNCHANGED <<pc, cfg, file, clusters, state, report, exit_code, chains>>
  /\ UNCHANGED auxVars

\* return final_transcript_md, global_history; and the node's update
BoardReturn ==
  /\ pc = "board" /\ bpc = "done"
  /\ state' = [state EXCEPT !.transcript = transcript,
                            !.conversation_history = global_history,
                            !.error = None]
  /\ pc' = "generate_summary"
  /\ bpc' = "idle"
  /\ r' = 0
  /\ order' = <<>>
  /\ transcript' = <<>>
  /\ global_history' = <<>>
  /\ priority_votes' = <<>>
  /\ chains' = <<>>
  /\ memories' = <<>>
  /\ last_prompt' = NoPrompt
  /\ UNCHANGED <<cfg, file, clusters, report, exit_code, llm_calls, llm_failures>>
  /\ UNCHANGED auxVars

\* ---------------------------------------------------------------------
\* run_summary_generation
\* ---------------------------------------------------------------------
\* Variant: the node runs although an earlier node set the error
run_summary_generation_unguarded ==
  /\ pc = "generate_summary"
  /\ \E llm \in {LlmFail} \cup {LlmOk(raw) : raw \in SummaryReplies} :
       LET res == summarise_meeting(TranscriptMd(state.transcript), llm)
       IN /\ state' = [state EXCEPT !.summary = res.value, !.error = None]
          /\ Called("summary", res.called, llm)
  /\ pc' = "report"
  /\ UNCHANGED <<cfg, file, clusters, report, exit_code, simVars>>
  /\ UNCHANGED auxVars

run_summary_generation ==
  /\ pc = "generate_summary"
  /\ IF state.error # None
     THEN UNCHANGED <<state, llm_calls, llm_failures>>
     ELSE \E llm \in {LlmFail} \cup {LlmOk(raw) : raw \in SummaryReplies} :
            LET res == summarise_meeting(TranscriptMd(state.transcript), llm)
            IN /\ state' = [state EXCEPT !.summary = res.value, !.error = None]
               /\ Called("summary", res.called, llm)
  /\ pc' = "report"
  /\ UNCHANGED <<cfg, file, clusters, report, exit_code, simVars>>
  /\ UNCHANGED auxVars

\* ---------------------------------------------------------------------
\* main(): report and exit
\* ---------------------------------------------------------------------
\* Variant: no report once the error is set
WriteReportUnlessError ==
  /\ pc = "report"
  /\ report' = IF state.error # None THEN report
               ELSE write_report(state.selected_clusters, state.features,
                                 state.personas, TranscriptMd(state.transcript),
                                 state.summary)
  /\ pc' = "finish"
  /\ UNCHANGED <<cfg, file, clusters, state, exit_code, llm_calls, llm_failures,
                 simVars>>
  /\ UNCHANGED auxVars

WriteReport ==
  /\ pc = "report"
  /\ report' = write_report(state.selected_clusters, state.features,
                            state.personas, TranscriptMd(state.transcript),
                                 state.summary)
  /\ pc' = "finish"
  /\ UNCHANGED <<cfg, file, clusters, state, exit_code, llm_calls, llm_failures,
                 simVars>>
  /\ UNCHANGED auxVars

\* if final_state.get("error"): sys.exit(1)
Finish ==
  /\ pc = "finish"
  /\ exit_code' = IF state.error # None THEN 1 ELSE 0
  /\ pc' = "exited"
  /\ UNCHANGED <<cfg, file, clusters, state, report, llm_calls, llm_failures,
                 simVars>>
  /\ UNCHANGED auxVars

Next ==
  \/ LoadClusterData
  \/ PickTopClusters
  \/ run_feature_ideation
  \/ run_persona_generation
  \/ BoardSkipped
  \/ BoardShortCircuit
  \/ BoardInit
  \/ RoundStart
  \/ PersonaTurn
  \/ BoardReturn
  \/ run_summary_generation
  \/ WriteReport
  \/ Finish

Spec == Init /\ [][Next]_vars

\* ---------------------------------------------------------------------
\* simulate_board on its own, called by run_board_simulation with what the
\* earlier stages produced
\* ---------------------------------------------------------------------
GoodFile ==
  [kind |-> "list", items |-> <<Cluster(0, "none"), Cluster(1, "none")>>]

BoardCallInit ==
  /\ pc = "board"
  /\ cfg \in {c \in Configs : c.persona_count >= 1}
  /\ file = GoodFile
  /\ clusters = load_cluster_data(GoodFile).value
  /\ state \in
       LET selected == pick_top_clusters(load_cluster_data(GoodFile).value,
                                         cfg.persona_count).value
           features == {ProposalsOf(raw, cfg.feature_count) :
                          raw \in IdeationReplies}
           personas == {generate_personas(selected, cfg.persona_count,
                                          LlmOk(reply)).value :
                          reply \in PersonaReplies}
       IN {[InitialState(selected) EXCEPT !.features = f, !.personas = q] :
             f \in features, q \in personas}
  /\ report = NoReport
  /\ exit_code = -1
  /\ llm_calls = [ideate |-> 1, personas |-> 1, board |-> 0, summary |-> 0]
  /\ llm_failures = [ideate |-> 0, personas |-> 0, board |-> 0, summary |-> 0]
  /\ SimIdle
  /\ AuxIdle

BoardNext ==
  \/ BoardShortCircuit
  \/ BoardInit
  \/ RoundStart
  \/ PersonaTurn
  \/ BoardReturn

\* The run is one sequential thread: a step that can be taken is taken
\* (every completion call returns or raises)
SpecBoard == BoardCallInit /\ [][BoardNext]_vars /\ WF_vars(BoardNext)

\* ---------------------------------------------------------------------
\* Functions examined on their own: the pipeline stands still
\* ---------------------------------------------------------------------
PipelineIdle ==
  /\ pc = "idle"
  /\ cfg = [persona_count |-> 0, feature_count |-> 0, discussion_rounds |-> 0]
  /\ file = [kind |-> "missing", items |-> <<>>]
  /\ clusters = <<>>
  /\ state = InitialState(<<>>)
  /\ report = NoReport
  /\ exit_code = -1
  /\ llm_calls = [ideate |-> 0, personas |-> 0, board |-> 0, summary |-> 0]
  /\ llm_failures = [ideate |-> 0, personas |-> 0, board |-> 0, summary |-> 0]
  /\ SimIdle

Pending == [status |-> "pending", value |-> <<>>, exc |-> "none"]

\* ---------------------------------------------------------------------
\* One completion call: invoke_llm_with_retry under @retry, chain.predict
\* ---------------------------------------------------------------------
\* stop_after_attempt(3)
StopAfterAttempt == 3

\* Variant: the stop condition tested before the attempt is counted
ShouldStopLate(attempt_number) == attempt_number > StopAfterAttempt

\* stop=stop_after_attempt(3): no retry once this many attempts were made
ShouldStop(attempt_number) == attempt_number >= StopAfterAttempt

\* The call sites: ask_llm in ideate_features, generate_personas and
\* summarise_meeting; chain.predict in simulate_board
AskLlmSites == {"ideate", "personas", "summary"}
Sites == AskLlmSites \cup {"board"}

\* What one llm_client.invoke / chain.predict does: raise, or return content
Raises == {"APIError", "LangChainException", "Exception"}
Contents == {<<"a", "E">>, <<"E", " ">>, <<" ", "a">>}
AttemptOutcomes ==
  {[ok |-> FALSE, raw |-> <<>>, exc |-> e] : e \in Raises}
  \cup {[ok |-> TRUE, raw |-> c, exc |-> "none"] : c \in Contents}

CallsInit ==
  /\ PipelineIdle
  /\ fn = "calling"
  /\ args \in {[site |-> s] : s \in Sites}
  /\ ret = Pending
  /\ attempts = <<>>

\* One attempt of invoke_llm_with_retry: the reply is returned stripped;
\* every except clause re-raises, and @retry either waits and calls again
\* or, at the stop condition, re-raises the last exception (reraise=True).
InvokeLlmWithRetry ==
  /\ fn = "calling"
  /\ args.site \in AskLlmSites
  /\ \E o \in AttemptOutcomes :
       /\ attempts' = Append(attempts, o)
       /\ IF o.ok
          THEN /\ ret' = [status |-> "returned", value |-> Strip(o.raw),
                          exc |-> "none"]
               /\ fn' = "done"
          ELSE IF ShouldStop(Len(attempts) + 1)
               THEN /\ ret' = [status |-> "raised", value |-> <<>>, exc |-> o.exc]
                    /\ fn' = "done"
               ELSE UNCHANGED <<ret, fn>>
  /\ UNCHANGED <<args, mainVars, simVars>>

\* reply = chain.predict(input=fac_input).strip() inside try / except of
\* simulate_board: the chain holds the client itself (llm=llm)
ChainPredict ==
  /\ fn = "calling"
  /\ args.site = "board"
  /\ \E o \in AttemptOutcomes :
       /\ attempts' = Append(attempts, o)
       /\ ret' = [status |-> IF o.ok THEN "returned" ELSE "placeholder",
                  value |-> ReplyOf([ok |-> o.ok, raw |-> o.raw]),
                  exc |-> "none"]
       /\ fn' = "done"
  /\ UNCHANGED <<args, mainVars, simVars>>

CallsNext == InvokeLlmWithRetry \/ ChainPredict

SpecCalls == CallsInit /\ [][CallsNext]_vars

\* ---------------------------------------------------------------------
\* load_cluster_data and pick_top_clusters on their own
\* ---------------------------------------------------------------------
\* sentiment_dist["negative"] of the explored clusters (-1: key absent)
NegCounts == {-1, 0, 1, 2}

\* Keys of a keyed-form file, in the order of the document
DictKeys == <<"b", "a", "10", "2", "c">>

ClusterLists == SeqsUpTo({Cluster(n, "none") : n \in NegCounts}, MaxClusters)

ClusterFiles ==
  Files
  \cup {[kind |-> "list", items |-> s] : s \in ClusterLists}
  \cup {[kind |-> "dict",
         items |-> [i \in 1..Len(s) |-> [key |-> DictKeys[i], value |-> s[i]]]] :
          s \in ClusterLists}

NoResult == [exc |-> "none", value |-> <<>>]

ClustersInit ==
  /\ PipelineIdle
  /\ fn = "load"
  /\ args \in [file : ClusterFiles, k : (-1)..(MaxClusters + 1)]
  /\ ret = [load |-> NoResult, pick |-> NoResult]
  /\ attempts = <<>>

\* clusters = load_cluster_data(path)
CallLoadClusterData ==
  /\ fn = "load"
  /\ LET res == load_cluster_data(args.file)
     IN /\ ret' = [ret EXCEPT !.load = res]
        /\ fn' = IF res.exc = "none" THEN "pick" ELSE "raised"
  /\ UNCHANGED <<args, attempts, mainVars, simVars>>

\* selected = pick_top_clusters(clusters, k)
CallPickTopClusters ==
  /\ fn = "pick"
  /\ LET res == pick_top_clusters(ret.load.value, args.k)
     IN /\ ret' = [ret EXCEPT !.pick = res]
        /\ fn' = IF res.exc = "none" THEN "done" ELSE "raised"
  /\ UNCHANGED <<args, attempts, mainVars, simVars>>

ClustersNext == CallLoadClusterData \/ CallPickTopClusters

SpecClusters == ClustersInit /\ [][ClustersNext]_vars

\* ---------------------------------------------------------------------
\* generate_personas on its own
\* ---------------------------------------------------------------------
\* Values of item["sentiment"]
SentimentValues == {"Neutral", "POSITIVE", "angry", NonString}

\* Elements of the parsed array
ArrayItems ==
  {Item("dict", nm, sent, TRUE) : nm \in {"Ann", "Bob"}, sent \in SentimentValues}
  \cup {Item("dict", "Ann", "Neutral", FALSE),
        Item("missing", "Ann", "Neutral", TRUE),
        Item("notdict", "", "", FALSE)}

ArrayReplies ==
  {[kind |-> "text", items |-> <<>>], [kind |-> "bad_json", items |-> <<>>]}
  \cup {[kind |-> "array", items |-> s] : s \in SeqsUpTo(ArrayItems, MaxItems)}

OneCluster == <<[key |-> "0", value |-> Cluster(1, "none")]>>

PersonasInit ==
  /\ PipelineIdle
  /\ fn = "generate_personas"
  /\ args \in [clusters : {<<>>, OneCluster},
                count : 0..MaxPersonas,
                llm : {LlmFail} \cup {LlmOk(raw) : raw \in ArrayReplies}]
  /\ ret = <<>>
  /\ attempts = <<>>

\* personas = generate_personas(clusters, count)
CallGeneratePersonas ==
  /\ fn = "generate_personas"
  /\ ret' = generate_personas(args.clusters, args.count, args.llm)
  /\ fn' = "done"
  /\ UNCHANGED <<args, attempts, mainVars, simVars>>

PersonasNext == CallGeneratePersonas

SpecPersonas == PersonasInit /\ [][PersonasNext]_vars

\* ---------------------------------------------------------------------
\* summarise_meeting and the summary section of write_report on their own
\* ---------------------------------------------------------------------
TranscriptTexts == SeqsUpTo({" ", "\n", "x"}, MaxLines)

SummaryTexts == SummaryReplies \cup {<<>>, <<" ">>, <<"Error:", " x">>}

SummaryInit ==
  /\ PipelineIdle
  /\ fn = "summarise_meeting"
  /\ args \in [transcript_md : TranscriptTexts,
                llm : {LlmFail} \cup {LlmOk(raw) : raw \in SummaryTexts}]
  /\ ret = [summary |-> <<>>, called |-> FALSE, section |-> "none"]
  /\ attempts = <<>>

\* summary = summarise_meeting(transcript_md)
CallSummariseMeeting ==
  /\ fn = "summarise_meeting"
  /\ LET res == summarise_meeting(args.transcript_md, args.llm)
     IN ret' = [ret EXCEPT !.summary = res.value, !.called = res.called]
  /\ fn' = "write_report"
  /\ UNCHANGED <<args, attempts, mainVars, simVars>>

\* write_report(..., transcript, summary): its summary section
CallWriteReport ==
  /\ fn = "write_report"
  /\ ret' = [ret EXCEPT !.section =
               write_report(<<>>, <<>>, <<>>, args.transcript_md, ret.summary).summary]
  /\ fn' = "done"
  /\ UNCHANGED <<args, attempts, mainVars, simVars>>

SummaryNext == CallSummariseMeeting \/ CallWriteReport

SpecSummary == SummaryInit /\ [][SummaryNext]_vars

\* ---------------------------------------------------------------------
\* ideate_features on its own
\* ---------------------------------------------------------------------
\* Lines of the reply (raw.split('\n'))
ReplyLines == RawLines \cup {<<" ", "#", "e">>, <<"*">>}

IdeateInit ==
  /\ PipelineIdle
  /\ fn = "ideate_features"
  /\ args \in [selected : {<<>>, OneCluster},
                n : 0..(MaxFeatures + 1),
                llm : {LlmFail}
                      \cup {LlmOk(raw) : raw \in SeqsUpTo(ReplyLines, MaxLines)}]
  /\ ret = <<>>
  /\ attempts = <<>>

\* features = ideate_features(selected, n)
CallIdeateFeatures ==
  /\ fn = "ideate_features"
  /\ ret' = ideate_features(args.selected, args.n, args.llm)
  /\ fn' = "done"
  /\ UNCHANGED <<args, attempts, mainVars, simVars>>

IdeateNext == CallIdeateFeatures

SpecIdeate == IdeateInit /\ [][IdeateNext]_vars

\* ---------------------------------------------------------------------
\* Properties
\* ---------------------------------------------------------------------
Rounds == cfg.discussion_rounds
P == Len(state.personas)

\* Positions of the turns of round q in a transcript of whole rounds
FacPos(q) == (q - 1) * (P + 1) + 1
ReplyPos(q) == (FacPos(q) + 1)..(FacPos(q) + P)

\* C1: when simulate_board has run its R >= 1 rounds, the transcript holds
\* exactly R facilitator turns and R*P persona turns; round q is one
\* facilitator turn followed by P persona turns in which every persona of
\* the list speaks exactly once, whatever turns failed.
C1_RoundStructure ==
  (bpc = "done" /\ Rounds >= 1) =>
    /\ Len(transcript) = Rounds * (P + 1)
    /\ Len(global_history) = Len(transcript)
    /\ Cardinality({k \in 1..Len(transcript) :
                      transcript[k].role = "facilitator"}) = Rounds
    /\ Cardinality({k \in 1..Len(transcript) :
                      transcript[k].role = "persona"}) = Rounds * P
    /\ \A q \in 1..Rounds :
         /\ transcript[FacPos(q)].role = "facilitator"
         /\ transcript[FacPos(q)].round = q
         /\ \A k \in ReplyPos(q) : transcript[k].role = "persona"
         /\ \A i \in 1..P :
              Cardinality({k \in ReplyPos(q) : global_history[k].by = i}) = 1
         /\ \A k \in ReplyPos(q) :
              transcript[k].name = state.personas[global_history[k].by].name

\* Two personas, two rounds, and a turn that failed
C1_Witness ==
  /\ bpc = "done" /\ Rounds = 2 /\ P = 2
  /\ llm_failures.board = 1

\* C2: with an empty persona list or an empty feature list simulate_board
\* returns the empty transcript and history: no round starts, no persona
\* turn is created and no completion call is made.
C2_EmptyInputsShortCircuit ==
  (state.personas = <<>> \/ state.features = <<>>) =>
    /\ bpc = "idle"
    /\ transcript = <<>> /\ global_history = <<>>
    /\ state.transcript = <<>> /\ state.conversation_history = <<>>
    /\ llm_calls.board = 0

\* simulate_board has returned for personas without features
C2_Witness ==
  /\ pc = "generate_summary" /\ state.error = None
  /\ state.personas # <<>> /\ state.features = <<>>

\* C3: a failed turn is recorded as the placeholder text in the transcript
\* and the global history, the loop goes on with the next persona or the
\* next round, and the run-level error stays unset.
C3_TurnStep ==
  (bpc = "turns" /\ ~last_prompt'.ok) =>
    /\ transcript' =
         Append(transcript,
                PersonaTurnOf(state.personas[Head(order)].name,
                              ErrorReply))
    /\ global_history'[Len(global_history')].content = ErrorReply
    /\ global_history'[Len(global_history')].type = "ai"
    /\ Len(global_history') = Len(global_history) + 1
    /\ order' = Tail(order)
    /\ bpc' = IF order' # <<>> THEN "turns"
              ELSE IF r < Rounds THEN "round" ELSE "done"
    /\ r' = IF order' = <<>> /\ r < Rounds THEN r + 1 ELSE r
    /\ state'.error = None /\ exit_code' = -1 /\ pc' = "board"

C3_AfterBoard ==
  llm_failures.board > 0 =>
    /\ state.error = None
    /\ exit_code \in {-1, 0}
    /\ pc # "board" =>
         /\ Len(state.transcript) = Rounds * (P + 1)
         /\ Cardinality({k \in 1..Len(state.transcript) :
                           state.transcript[k].text = ErrorReply})
              = llm_failures.board

C3_FailureIsolated == [][C3_TurnStep]_vars /\ []C3_AfterBoard

\* The first persona of round 1 failed and round 2 was run to its end
C3_Witness ==
  /\ pc = "exited" /\ exit_code = 0
  /\ Rounds = 2 /\ P = 2
  /\ Len(state.transcript) = 6
  /\ state.transcript[2].text = ErrorReply
  /\ llm_failures.board = 1

RECURSIVE SumVotes(_)
SumVotes(votes) ==
  IF DOMAIN votes = {} THEN 0
  ELSE LET d == CHOOSE x \in DOMAIN votes : TRUE
       IN votes[d] + SumVotes([k \in (DOMAIN votes) \ {d} |-> votes[k]])

Descriptions == {state.features[i].description : i \in 1..Len(state.features)}

\* Feature i is the first one whose description occurs in the reply
IsFirstMention(i, reply) ==
  /\ Contains(Lower(state.features[i].description), Lower(reply))
  /\ \A j \in 1..(i - 1) :
       ~Contains(Lower(state.features[j].description), Lower(reply))

\* C4: the tally is untouched in every round before the last; a reply of
\* the last round adds one to the entry of the first feature, in list
\* order, whose description it contains case-insensitively, and to no
\* other entry; the counts sum to at most P.
C4_TallyStep ==
  (bpc = "turns" /\ r = Rounds) =>
    LET reply == transcript'[Len(transcript')].text
    IN \A d \in Descriptions :
         VoteOf(priority_votes', d) =
           VoteOf(priority_votes, d)
           + (IF \E i \in 1..Len(state.features) :
                    /\ IsFirstMention(i, reply)
                    /\ state.features[i].description = d
              THEN 1 ELSE 0)

C4_TallyState ==
  /\ (bpc # "idle" /\ r < Rounds) => priority_votes = <<>>
  /\ DOMAIN priority_votes \subseteq Descriptions
  /\ bpc # "idle" => SumVotes(priority_votes) <= P

C4_VoteTally == [][C4_TallyStep]_vars /\ []C4_TallyState

\* A last-round reply naming both features counted for the first one only
C4_Witness ==
  /\ bpc = "done" /\ Rounds = 2 /\ P = 2
  /\ Len(state.features) = 2
  /\ state.features[1].description = <<"e">>
  /\ state.features[2].description = <<"A">>
  /\ transcript[Len(transcript)].text = <<"a", "E">>
  /\ transcript[Len(transcript) - 1].text = <<"a", "E">>
  /\ VoteOf(priority_votes, <<"e">>) = 2
  /\ VoteOf(priority_votes, <<"A">>) = 0

\* C5: the history put into the prompt of persona X's turn holds only
\* facilitator messages and replies produced by X itself, never the reply
\* of another persona of the list.
C5_OwnMemoryOnly ==
  \A k \in 1..Len(last_prompt.history) :
    last_prompt.history[k].type = "ai" =>
      last_prompt.history[k].by = last_prompt.speaker

\* C6 as stated: for every R >= 1 the facilitator message of the last
\* round is the prioritise prompt, that of round 1 the feature
\* presentation and that of round 2 the risk/success-metric prompt.
C6_FinalRoundPrioritises ==
  (bpc = "done" /\ Rounds >= 1) =>
    /\ transcript[FacPos(Rounds)].text = PrioritisePrompt
    /\ transcript[FacPos(1)].text = WelcomePrompt(state.features)
    /\ Rounds >= 2 => transcript[FacPos(2)].text = RiskPrompt

\* C6 amended: the last round gets the prioritise prompt when R >= 3;
\* round 1 always gets the feature presentation and round 2, when there is
\* one, the risk/success-metric prompt.
C6_PromptByRoundIndex ==
  (bpc = "done" /\ Rounds >= 1) =>
    /\ Rounds >= 3 => transcript[FacPos(Rounds)].text = PrioritisePrompt
    /\ transcript[FacPos(1)].text = WelcomePrompt(state.features)
    /\ Rounds >= 2 => transcript[FacPos(2)].text = RiskPrompt

\* Three rounds were run
C6_Witness ==
  /\ bpc = "done" /\ Rounds = 3
  /\ Len(transcript) = 3 * (P + 1)

\* C7: once a generation stage has failed the error is set and no later
\* generation stage makes a completion call; the report is still written.
C7_FailureSkipsLaterStages ==
  /\ llm_failures.ideate > 0 =>
       /\ state.error # None
       /\ llm_calls.personas = 0 /\ llm_calls.board = 0 /\ llm_calls.summary = 0
  /\ llm_failures.personas > 0 =>
       /\ state.error # None
       /\ llm_calls.board = 0 /\ llm_calls.summary = 0
  /\ llm_failures.summary > 0 => state.error # None
  /\ (pc = "exited" /\ state.selected_clusters # <<>>) => report # NoReport

\* C8: the exit status is 0 only when ideation, persona generation,
\* simulation and summary all succeeded.
C8_ExitZeroOnlyOnSuccess ==
  exit_code = 0 =>
    /\ llm_failures.ideate = 0
    /\ llm_failures.personas = 0
    /\ llm_failures.summary = 0
    /\ state.features # <<>>
    /\ state.personas # <<>>
    /\ state.transcript # <<>>
    /\ ~StartsWithError(state.summary)

\* The input-format failures of cluster loading
InputFormatFailure(f) ==
  \/ f.kind \in {"invalid_json", "scalar"}
  \/ f.kind \in {"list", "dict"} /\ f.items = <<>>

\* C9: every input-format failure ends the process with the
\* data-validation status 3, before any pipeline stage has run.
C9_FormatFailureExitsWith3 ==
  (pc = "exited" /\ InputFormatFailure(file)) =>
    /\ exit_code = 3
    /\ state = InitialState(<<>>)
    /\ llm_calls = [ideate |-> 0, personas |-> 0, board |-> 0, summary |-> 0]

\* C10 as stated: whenever the input file was loaded, the report has been
\* written when the process exits.
C10_ReportAfterLoad ==
  (pc = "exited" /\ clusters # <<>>) => report # NoReport

\* C10 amended: whenever the input file was loaded and at least one
\* cluster was selected, the Report Writer has run when the process exits.
C10_ReportAfterSelection ==
  (pc = "exited" /\ state.selected_clusters # <<>>) => report # NoReport

\* A run whose error was set by a stage and that still wrote its report
C10_Witness ==
  /\ pc = "exited" /\ exit_code = 1
  /\ state.error = "Persona Generation Failed"
  /\ report # NoReport

\* ---------------------------------------------------------------------
\* C11: a call through ask_llm / invoke_llm_with_retry makes between one
\* and three attempts; it returns the stripped reply of the first attempt
\* that succeeds and makes no attempt after it; when attempts 1, 2 and 3
\* all raise, the exception of the third is propagated and there is no
\* fourth attempt.
\* ---------------------------------------------------------------------
C11_BoundedRetry ==
  args.site \in AskLlmSites =>
    LET n == Len(attempts)
    IN /\ n <= 3
       /\ \A i \in 1..n : attempts[i].ok => i = n /\ fn = "done"
       /\ fn = "done" <=> ret.status \in {"returned", "raised"}
       /\ fn = "done" => n >= 1
       /\ ret.status = "returned" =>
            /\ attempts[n].ok
            /\ \A i \in 1..(n - 1) : ~attempts[i].ok
            /\ ret.value = Strip(attempts[n].raw)
       /\ ret.status = "raised" =>
            /\ n = 3
            /\ \A i \in 1..3 : ~attempts[i].ok
            /\ ret.exc = attempts[3].exc
       /\ (n = 3 /\ \A i \in 1..3 : ~attempts[i].ok) => ret.status = "raised"

\* Three attempts raised, the third with another exception than the first
C11_Witness ==
  /\ args.site = "summary"
  /\ fn = "done"
  /\ ret.status = "raised"
  /\ Len(attempts) = 3
  /\ attempts[1].exc = "APIError"
  /\ attempts[3].exc = "LangChainException"
  /\ ret.exc = "LangChainException"

\* ---------------------------------------------------------------------
\* C12: pick_top_clusters(clusters, k) returns the empty mapping for every
\* k <= 0; for k > 0 it returns exactly min(k, |clusters|) clusters, the
\* highest-ranked by descending negative count (an absent count ranks as
\* 0) with ties in input order, listed in that order.  Clusters are those
\* whose sentiment_dist is a mapping.
\* ---------------------------------------------------------------------
Loaded == ret.load.value

NegCountOf(kv) == IF kv.value.neg < 0 THEN 0 ELSE kv.value.neg

PosOf(kv) == CHOOSE i \in 1..Len(Loaded) : Loaded[i] = kv

RanksBefore(a, b) ==
  \/ NegCountOf(a) > NegCountOf(b)
  \/ NegCountOf(a) = NegCountOf(b) /\ PosOf(a) < PosOf(b)

C12_TopClusters ==
  (/\ fn = "done"
   /\ \A i \in 1..Len(Loaded) : Loaded[i].value.flaw # "sent")
  => LET selected == ret.pick.value
         all == {Loaded[i] : i \in 1..Len(Loaded)}
         chosen == {selected[j] : j \in 1..Len(selected)}
     IN /\ ret.pick.exc = "none"
        /\ args.k <= 0 => selected = <<>>
        /\ args.k > 0 =>
             /\ Len(selected) = IF args.k < Len(Loaded) THEN args.k ELSE Len(Loaded)
             /\ chosen \subseteq all
             /\ \A i, j \in 1..Len(selected) :
                  i < j => RanksBefore(selected[i], selected[j])
             /\ \A c \in all \ chosen : \A d \in chosen : RanksBefore(d, c)

\* Two of three clusters are selected; the tie between the first and the
\* third is decided by input order and the absent count ranks last
C12_Witness ==
  /\ fn = "done"
  /\ args.k = 2
  /\ args.file.kind = "list"
  /\ args.file.items = <<Cluster(1, "none"), Cluster(2, "none"), Cluster(1, "none")>>
  /\ ret.pick.value = <<[key |-> "1", value |-> Cluster(2, "none")],
                        [key |-> "0", value |-> Cluster(1, "none")]>>

\* ---------------------------------------------------------------------
\* C13: for a list-form input of length N >= 1 load_cluster_data returns
\* the keys "0" .. "N-1" in input order, key str(i) holding the i-th
\* element unchanged; a (non-empty) keyed-form input is returned as it is.
\* ---------------------------------------------------------------------
Digits == <<"0", "1", "2", "3", "4">>

ParsedItems ==
  IF args.llm.ok /\ args.llm.raw.kind = "array" THEN args.llm.raw.items ELSE <<>>

C14_PersonasValidated ==
  fn = "done" =>
    LET personas == ret.value
    IN /\ Len(personas) <= args.count
       /\ \A j \in 1..Len(personas) :
            personas[j].sentiment \in {"positive", "neutral", "negative"}
       /\ \E f \in [1..Len(personas) -> 1..Len(ParsedItems)] :
            /\ \A i, j \in 1..Len(personas) : i < j => f[i] < f[j]
            /\ \A j \in 1..Len(personas) :
                 /\ ParsedItems[f[j]].shape = "dict"
                 /\ ParsedItems[f[j]].name = personas[j].name

\* An element without a required field and two valid ones, one persona
\* requested: the first is dropped, the result is truncated and the
\* sentiment is lowercased
C14_Witness ==
  /\ fn = "done"
  /\ args.count = 1
  /\ ParsedItems = <<Item("missing", "Ann", "Neutral", TRUE),
                     Item("dict", "Bob", "POSITIVE", TRUE),
                     Item("dict", "Ann", "Neutral", TRUE)>>
  /\ ret.value = <<Persona("Bob", "positive")>>

\* ---------------------------------------------------------------------
\* C19: the elements of the array are validated independently: an invalid
\* element of any kind (not a mapping, a required field absent, a
\* sentiment that is not one of the three strings or not a string at all,
\* pain_points not a list of strings) is skipped alone, and the first
\* `count` valid elements are returned.
\* ---------------------------------------------------------------------
ValidItem(item) ==
  /\ item.shape = "dict"
  /\ item.sentiment # NonString
  /\ LowerSentiment(item.sentiment) \in {"positive", "neutral", "negative"}
  /\ item.pain_ok

ValidOnes(items) ==
  LET F[i \in 0..Len(items)] ==
        IF i = 0 THEN <<>>
        ELSE IF ValidItem(items[i])
             THEN Append(F[i - 1], Persona(items[i].name,
                                           LowerSentiment(items[i].sentiment)))
             ELSE F[i - 1]
  IN F[Len(items)]

C19_InvalidElementSkippedAlone ==
  (/\ fn = "done"
   /\ args.clusters # <<>> /\ args.count > 0
   /\ args.llm.ok /\ args.llm.raw.kind = "array")
  => LET valid == ValidOnes(ParsedItems)
     IN ret.value = SubSeq(valid, 1, IF args.count < Len(valid)
                                     THEN args.count ELSE Len(valid))

\* ---------------------------------------------------------------------
\* C15: summarise_meeting returns a text in every case: for a transcript
\* that is empty or only whitespace the fixed error string, without a
\* completion call; when the completion call fails an error string; both
\* start with "Error:" and write_report puts the placeholder in the
\* summary section.
\* ---------------------------------------------------------------------
BlankTranscript ==
  \A i \in 1..Len(args.transcript_md) : args.transcript_md[i] \in {" ", "\n"}

C15_SummaryNeverRaises ==
  /\ (fn \in {"write_report", "done"} /\ BlankTranscript) =>
       /\ ret.summary = <<"Error:", " Transcript was empty.">>
       /\ ~ret.called
  /\ (fn \in {"write_report", "done"} /\ ~BlankTranscript /\ ~args.llm.ok) =>
       /\ ret.called
       /\ Len(ret.summary) > 1 /\ ret.summary[1] = "Error:"
  /\ (fn \in {"write_report", "done"} /\ ~BlankTranscript /\ args.llm.ok) =>
       /\ ret.called
       /\ ret.summary = args.llm.raw
  /\ (fn = "done" /\ (BlankTranscript \/ ~args.llm.ok)) =>
       ret.section = "placeholder"

\* A transcript of whitespace only, reported with the placeholder
C15_Witness ==
  /\ fn = "done"
  /\ args.transcript_md = <<" ", "\n">>
  /\ args.llm.ok
  /\ ret.summary = EmptyTranscriptSummary
  /\ ~ret.called
  /\ ret.section = "placeholder"

\* ---------------------------------------------------------------------
\* C16: ideate_features(selected, n) returns at most n proposals: the
\* first n lines of the reply that survive the filter (trimmed, not empty,
\* not starting with "*", "-" or "#", without "|"), in reply order and
\* numbered 1, 2, ...; an empty cluster map gives the empty sequence
\* without a completion call, a failed completion call gives the empty
\* sequence and no exception.
\* ---------------------------------------------------------------------
Trimmed(i) == Strip(args.llm.raw[i])

Surviving ==
  {i \in 1..Len(args.llm.raw) :
     /\ Trimmed(i) # <<>>
     /\ Trimmed(i)[1] \notin {"*", "-", "#"}
     /\ \A j \in 1..Len(Trimmed(i)) : Trimmed(i)[j] # "|"}

NthSurviving(j) ==
  CHOOSE i \in Surviving : Cardinality({x \in Surviving : x <= i}) = j

C16_FirstSurvivingLines ==
  fn = "done" =>
    /\ ret.exc = "none"
    /\ Len(ret.value) <= args.n
    /\ args.selected = <<>> => ret.value = <<>> /\ ~ret.called
    /\ (args.selected # <<>> /\ ~args.llm.ok) => ret.value = <<>> /\ ret.called
    /\ (args.selected # <<>> /\ args.llm.ok) =>
         /\ ret.called
         /\ Len(ret.value) = IF args.n < Cardinality(Surviving)
                              THEN args.n ELSE Cardinality(Surviving)
         /\ \A j \in 1..Len(ret.value) :
              /\ ret.value[j].id = j
              /\ ret.value[j].description = Trimmed(NthSurviving(j))

\* Three lines of which the heading is dropped and the last is trimmed
C16_Witness ==
  /\ fn = "done"
  /\ args.n = 2
  /\ args.llm.ok
  /\ args.llm.raw = <<<<"A">>, <<" ", "#", "e">>, <<"e", " ">>>>
  /\ ret.value = <<FeatureProposal(1, <<"A">>), FeatureProposal(2, <<"e">>)>>

\* ---------------------------------------------------------------------
\* C17: with R >= 3 configured rounds, every round r with 2 <= r <= R - 1
\* gets the risk / success-metric prompt of round 2, and only round R
\* gets the prioritise prompt.
\* ---------------------------------------------------------------------
C17_MiddleRoundsGetRiskPrompt ==
  (bpc # "idle" /\ Rounds >= 3) =>
    \A k \in 1..Len(transcript) :
      transcript[k].role = "facilitator" =>
        /\ (2 <= transcript[k].round /\ transcript[k].round <= Rounds - 1)
             => transcript[k].text = RiskPrompt
        /\ transcript[k].text = PrioritisePrompt => transcript[k].round = Rounds

\* ---------------------------------------------------------------------
\* C18: every completion call, the one behind a persona's reply included,
\* goes through the bounded retry: a failure reaches the caller (and a
\* persona's turn gets the placeholder) only after three attempts of that
\* call have failed.
\* ---------------------------------------------------------------------
C18_FailureOnlyAfterThreeAttempts ==
  (fn = "done" /\ ret.status \in {"raised", "placeholder"}) =>
    /\ Len(attempts) = 3
    /\ \A i \in 1..3 : ~attempts[i].ok

\* ---------------------------------------------------------------------
\* C20: for every persona list, lists with a repeated name included, the
\* simulation holds one memory per persona (P memories for P personas)
\* and each memory is written by the turns of one persona only.
\* ---------------------------------------------------------------------
C20_OneMemoryPerPersona ==
  bpc # "idle" =>
    /\ Cardinality(DOMAIN memories) = P
    /\ \A nm \in DOMAIN memories :
         \A i, j \in 1..Len(memories[nm]) :
           (memories[nm][i].type = "ai" /\ memories[nm][j].type = "ai")
             => memories[nm][i].by = memories[nm][j].by

\* ---------------------------------------------------------------------
\* C21: a run of simulate_board with personas, features and R >= 1 goes
\* through round 1, round 2, ..., round R in this order, none skipped and
\* none repeated, whatever turns fail; it reaches the end of the loop, and
\* no round is entered after round R.
\* ---------------------------------------------------------------------
\* Rounds entered so far
Entered == IF bpc = "round" THEN r - 1 ELSE r

FacilitatorTurns == {k \in 1..Len(transcript) : transcript[k].role = "facilitator"}

C21_RoundStep ==
  r' # r =>
    \/ bpc = "idle" /\ r' = 1
    \/ bpc' = "idle"
    \/ /\ bpc = "turns" /\ bpc' = "round"
       /\ Tail(order) = <<>>
       /\ r' = r + 1 /\ r' <= Rounds

C21_RoundsEntered ==
  (bpc \in {"round", "turns", "done"} /\ Rounds >= 1) =>
    /\ 1 <= r /\ r <= Rounds
    /\ Cardinality(FacilitatorTurns) = Entered
    /\ \A q \in 1..Entered :
         Cardinality({k \in FacilitatorTurns : transcript[k].round = q}) = 1
    /\ \A i, j \in FacilitatorTurns :
         i < j => transcript[i].round < transcript[j].round
    /\ bpc = "done" => Entered = Rounds

C21_RoundsInOrderToDone ==
  /\ [][C21_RoundStep]_vars
  /\ []C21_RoundsEntered
  /\ (bpc = "round" ~> bpc = "done")

\* Four rounds done, two of the turns failed
C21_Witness ==
  /\ bpc = "done"
  /\ Rounds = 4 /\ r = 4
  /\ Cardinality(FacilitatorTurns) = 4
  /\ llm_failures.board = 2

\* ---------------------------------------------------------------------
\* C22: a persona whose turn of the final round failed, so that its reply
\* is the placeholder, casts no vote: for every feature list the tally
\* counts only replies that the completion service produced.
\* ---------------------------------------------------------------------
C22_FailedTurnStep ==
  (bpc = "turns" /\ Len(transcript') = Len(transcript) + 1 /\ ~last_prompt'.ok)
    => priority_votes' = priority_votes

C22_PlaceholderCastsNoVote == [][C22_FailedTurnStep]_vars

C24_ErrorStep == state.error # None => state' = state

C24_ErrorAtExit ==
  (pc = "exited" /\ state.error # None) =>
    /\ exit_code = 1
    /\ state.transcript = <<>> /\ state.conversation_history = <<>>
    /\ state.summary = <<>>
    /\ state.error = "Feature Ideation Failed" => state.features = <<>>
    /\ state.personas = <<>>

C24_ErrorFreezesState == [][C24_ErrorStep]_vars /\ []C24_ErrorAtExit

\* Persona generation failed after a successful ideation; the run ended
C24_Witness ==
  /\ pc = "exited"
  /\ state.error = "Persona Generation Failed"
  /\ state.features # <<>>
  /\ state.summary = <<>>
  /\ llm_calls.summary = 0
  /\ exit_code = 1

====
